---- MODULE Spec2Model ----
EXTENDS Integers, Sequences, FiniteSets, TLC

(***************************************************************************)
(* run-safely: runSafe, the FetchError classes, fetchTyped and safeFetch    *)
(* (src/src/index.ts).                                                      *)
(*                                                                         *)
(* JavaScript values are records tagged by the field t.  A message is a     *)
(* sequence of text chunks, so that a template literal is the concatenation *)
(* of its parts.  Objects whose identity matters carry a field ref.         *)
(***************************************************************************)

\* ---------------------------------------------------------------- values

Undef == [t |-> "undefined"]

Str(chunks) == [t |-> "string", s |-> chunks]

\* an array; const [a, b] = r reads its slots, a missing slot reads undefined
Arr(items) == [t |-> "array", items |-> items]

\* what callers throw or reject with: two Error objects, a falsy value and a
\* truthy value that is no Error
ErrNet == [t |-> "Error", cls |-> "Error", message |-> <<"Network error">>, ref |-> "e1"]
ErrJson == [t |-> "Error", cls |-> "Error", message |-> <<"Invalid JSON">>, ref |-> "e2"]
Thrown == {ErrNet, ErrJson, Undef, Str(<<"boom">>)}

\* decoded bodies (the tests' bodies, and one with a key the schema does not name)
BodyGood == [t |-> "object", props |-> [id |-> <<"number", "1">>, name |-> <<"string", "test">>]]
BodyExtra == [t |-> "object", props |-> [id |-> <<"number", "1">>, name |-> <<"string", "test">>, role |-> <<"string", "admin">>]]
BodyBad == [t |-> "object", props |-> [id |-> <<"string", "not-a-number">>, name |-> <<"number", "123">>]]
Bodies == {BodyGood, BodyExtra, BodyBad}

\* JavaScript truthiness, as tested by if (fetchError) and if (jsonError)
Truthy(v) ==
  CASE v.t = "undefined" -> FALSE
    [] v.t = "string" -> v.s # <<>>
    [] OTHER -> TRUE

\* the property read e.message
PropMessage(v) == IF v.t = "Error" THEN Str(v.message) ELSE Undef

\* the message an Error constructor stores for its argument
CtorMessage(arg) == IF arg.t = "undefined" THEN <<>> ELSE arg.s

\* ---------------------------------------------------------------- classes

Classes == {"Error", "TypeError", "ZodError", "FetchError", "FetchThrewError",
            "ResponseNotOkError", "JSONParseError", "ParseFailedError"}

\* the extends clauses
SuperClass(cls) ==
  CASE cls = "FetchError" -> "Error"
    [] cls = "FetchThrewError" -> "FetchError"
    [] cls = "ResponseNotOkError" -> "FetchError"
    [] cls = "JSONParseError" -> "FetchError"
    [] cls = "ParseFailedError" -> "FetchError"
    [] cls = "TypeError" -> "Error"
    [] cls = "ZodError" -> "Error"
    [] OTHER -> "Object"

RECURSIVE ClassIs(_, _)
ClassIs(cls, base) ==
  IF cls = base THEN TRUE
  ELSE IF cls = "Object" THEN FALSE
  ELSE ClassIs(SuperClass(cls), base)

InstanceOf(v, base) == v.t = "Error" /\ ClassIs(v.cls, base)

\* number to text inside a template literal
Digit(d) ==
  CASE d = 0 -> "0" [] d = 1 -> "1" [] d = 2 -> "2" [] d = 3 -> "3" [] d = 4 -> "4"
    [] d = 5 -> "5" [] d = 6 -> "6" [] d = 7 -> "7" [] d = 8 -> "8" [] OTHER -> "9"

RECURSIVE NumToStr(_)
NumToStr(n) == IF n < 10 THEN <<Digit(n)>> ELSE NumToStr(n \div 10) \o <<Digit(n % 10)>>

FetchThrewError(message) ==
  [t |-> "Error", cls |-> "FetchThrewError", message |-> CtorMessage(message)]

ResponseNotOkError(response) ==
  [t |-> "Error", cls |-> "ResponseNotOkError",
   message |-> <<"Response not ok: ">> \o NumToStr(response.status) \o <<" ", response.statusText>>,
   response |-> response]

JSONParseError(message) ==
  [t |-> "Error", cls |-> "JSONParseError", message |-> CtorMessage(message)]

ParseFailedError(error) ==
  [t |-> "Error", cls |-> "ParseFailedError", message |-> error.message, zodError |-> error]

\* the TypeError the runtime raises for a property read of undefined
TypeErrorRead(prop) ==
  [t |-> "Error", cls |-> "TypeError",
   message |-> <<"Cannot read properties of undefined (reading '", prop, "')">>]

\* ---------------------------------------------------------------- promises

NoPromise == [state |-> "none", v |-> Undef]
Pending == [state |-> "pending", v |-> Undef]
Fulfilled(v) == [state |-> "fulfilled", v |-> v]
Rejected(v) == [state |-> "rejected", v |-> v]
\* an await that resumes on fulfilment only
SettledOnlyFulfilled(p) == p.state = "fulfilled"

Settled(p) == p.state \in {"fulfilled", "rejected"}

\* how a unit of work ends: how is "return" or "throw" for synchronous work,
\* "resolve" or "reject" for a promise
Outcome(b) == IF b.how \in {"return", "resolve"} THEN Fulfilled(b.v) ELSE Rejected(b.v)

\* ---------------------------------------------------------------- runSafe

\* runSafe with a catch branch that fills the second slot
runSafeTwoSlots(o) == IF o.state = "fulfilled" THEN Arr(<<Undef, o.v>>) ELSE Arr(<<o.v, Undef>>)

\* runSafe with a catch branch that wraps what it caught in a new Error
runSafeWraps(o) ==
  IF o.state = "fulfilled" THEN Arr(<<Undef, o.v>>)
  ELSE Arr(<< [t |-> "Error", cls |-> "Error", message |-> CtorMessage(PropMessage(o.v)), ref |-> "new"] >>)

\* the result of the try block around an awaited expression that ended as o:
\* the return of the try branch, or the return of the catch branch
runSafe(o) == IF o.state = "fulfilled" THEN Arr(<<Undef, o.v>>) ELSE Arr(<<o.v>>)

\* a runSafe that calls a function input a second time
InvokeCountTwice(input) == IF input.isPromise THEN 0 ELSE 2

\* number of calls of input made by (input instanceof Promise ? input : input())
InvokeCount(input) == IF input.isPromise THEN 0 ELSE 1

\* the array destructuring const [a, b] = r
Slot(r, i) == IF i <= Len(r.items) THEN r.items[i] ELSE Undef

\* inputs of runSafe: a promise (settled already or settling later), a
\* synchronous function, a function returning a promise
RunValues == {BodyGood, Undef}
RunSafeInputs ==
  { [isPromise |-> TRUE, early |-> e, how |-> "resolve", v |-> v] : e \in BOOLEAN, v \in RunValues }
  \cup { [isPromise |-> TRUE, early |-> e, how |-> "reject", v |-> v] : e \in BOOLEAN, v \in Thrown }
  \cup { [isPromise |-> FALSE, early |-> FALSE, how |-> h, v |-> v] : h \in {"return", "resolve"}, v \in RunValues }
  \cup { [isPromise |-> FALSE, early |-> FALSE, how |-> h, v |-> v] : h \in {"throw", "reject"}, v \in Thrown }

\* ---------------------------------------------------------------- collaborators

\* response.json(): raises on the call, or returns a promise that rejects or
\* resolves with the decoded body
Decodes ==
  { [how |-> h, v |-> e] : h \in {"throw", "reject"}, e \in Thrown }
  \cup { [how |-> "resolve", v |-> b] : b \in Bodies }

MkResponse(status, statusText, body, ref) ==
  [t |-> "Response", ok |-> status \in 200..299, status |-> status,
   statusText |-> statusText, body |-> body, ref |-> ref]

Responses ==
  { MkResponse(200, "", d, "r200") : d \in Decodes }
  \cup { MkResponse(404, "Not Found", d, "r404") : d \in Decodes }

\* fetch(url, options): raises on the call, or returns a promise that rejects
\* or resolves with a response
Transports ==
  { [how |-> h, v |-> e] : h \in {"throw", "reject"}, e \in Thrown }
  \cup { [how |-> "resolve", v |-> r] : r \in Responses }

\* the schemas: z.object({id: z.number(), name: z.string()}) and z.any()
Schemas == {"user", "any"}

\* the type zod reports for a value it was given
ParsedType(v) == IF v.t = "object" THEN "object" ELSE v.t

\* zod's default text for an invalid_type issue: "Required" when nothing was
\* received, otherwise `Expected ${expected}, received ${received}`
InvalidTypeMessage(expected, received) ==
  CASE received = "undefined" -> "Required"
    [] expected = "number" /\ received = "string" -> "Expected number, received string"
    [] expected = "number" /\ received = "boolean" -> "Expected number, received boolean"
    [] expected = "number" /\ received = "object" -> "Expected number, received object"
    [] expected = "number" /\ received = "array" -> "Expected number, received array"
    [] expected = "number" /\ received = "null" -> "Expected number, received null"
    [] expected = "string" /\ received = "number" -> "Expected string, received number"
    [] expected = "string" /\ received = "boolean" -> "Expected string, received boolean"
    [] expected = "string" /\ received = "object" -> "Expected string, received object"
    [] expected = "string" /\ received = "array" -> "Expected string, received array"
    [] expected = "string" /\ received = "null" -> "Expected string, received null"
    [] expected = "object" /\ received = "string" -> "Expected object, received string"
    [] expected = "object" /\ received = "number" -> "Expected object, received number"
    [] expected = "object" /\ received = "boolean" -> "Expected object, received boolean"
    [] expected = "object" /\ received = "array" -> "Expected object, received array"
    [] expected = "object" /\ received = "null" -> "Expected object, received null"

\* the issue zod records when a value has not the type the schema expects
InvalidType(expected, received, path) ==
  [code |-> "invalid_type", expected |-> expected, received |-> received,
   path |-> path, message |-> InvalidTypeMessage(expected, received)]

\* the type found under a key of an object, undefined for a missing key
KeyType(json, key) == IF key \in DOMAIN json.props THEN json.props[key][1] ELSE "undefined"

HasType(json, key, ty) == json.t = "object" /\ KeyType(json, key) = ty

\* the issues of z.object({id: z.number(), name: z.string()}) for json, in
\* schema order
Issues(json) ==
  IF json.t # "object"
  THEN << InvalidType("object", ParsedType(json), <<>>) >>
  ELSE (IF HasType(json, "id", "number") THEN <<>>
        ELSE << InvalidType("number", KeyType(json, "id"), <<"id">>) >>)
       \o (IF HasType(json, "name", "string") THEN <<>>
           ELSE << InvalidType("string", KeyType(json, "name"), <<"name">>) >>)

\* JSON.stringify(issues, null, 2), as text chunks: the elements of a path
RECURSIVE StringifyPathItems(_)
StringifyPathItems(path) ==
  IF path = <<>> THEN <<>>
  ELSE <<"      \"", Head(path), "\"">>
       \o (IF Len(path) = 1 THEN <<>> ELSE <<",\n">> \o StringifyPathItems(Tail(path)))

StringifyPath(path) ==
  IF path = <<>> THEN <<"[]">>
  ELSE <<"[\n">> \o StringifyPathItems(path) \o <<"\n    ]">>

\* one issue, its keys in the order zod sets them
StringifyIssue(issue) ==
  <<"  {\n">>
  \o (IF "code" \in DOMAIN issue THEN <<"    \"code\": \"", issue.code, "\",\n">> ELSE <<>>)
  \o (IF "expected" \in DOMAIN issue THEN <<"    \"expected\": \"", issue.expected, "\",\n">> ELSE <<>>)
  \o (IF "received" \in DOMAIN issue THEN <<"    \"received\": \"", issue.received, "\",\n">> ELSE <<>>)
  \o <<"    \"path\": ">> \o StringifyPath(issue.path) \o <<",\n">>
  \o <<"    \"message\": \"", issue.message, "\"\n  }">>

RECURSIVE StringifyIssues(_)
StringifyIssues(issues) ==
  IF issues = <<>> THEN <<>>
  ELSE StringifyIssue(Head(issues))
       \o (IF Len(issues) = 1 THEN <<>> ELSE <<",\n">> \o StringifyIssues(Tail(issues)))

JSONStringify(issues) ==
  IF issues = <<>> THEN <<"[]">>
  ELSE <<"[\n">> \o StringifyIssues(issues) \o <<"\n]">>

\* new ZodError(issues); its message is the issues as indented JSON
ZodError(issues) ==
  [t |-> "Error", cls |-> "ZodError", issues |-> issues,
   message |-> JSONStringify(issues), ref |-> "z"]

\* schema.safeParse(json); an object schema drops the keys it does not name
safeParse(schema, json) ==
  IF schema = "any" THEN [success |-> TRUE, data |-> json, error |-> Undef]
  ELSE IF Issues(json) = <<>>
  THEN [success |-> TRUE,
        data |-> [t |-> "object", props |-> [id |-> json.props.id, name |-> json.props.name]],
        error |-> Undef]
  ELSE [success |-> FALSE, data |-> Undef, error |-> ZodError(Issues(json))]

Accepts(schema, json) == safeParse(schema, json).success

\* ---------------------------------------------------------------- fetchTyped

\* a fetchTyped that starts the decode before it looks at response.ok
StepFetchDecodeFirst(o) ==
  LET r == runSafe(o)
      fetchError == Slot(r, 1)
      response == Slot(r, 2)
  IN  IF Truthy(fetchError)
      THEN [next |-> "throw", v |-> FetchThrewError(PropMessage(fetchError)), json |-> 0]
      ELSE IF response.t = "undefined"
      THEN [next |-> "throw", v |-> TypeErrorRead("json"), json |-> 0]
      ELSE IF response.body.how = "throw"
      THEN [next |-> "throw", v |-> response.body.v, json |-> 1]
      ELSE IF ~response.ok
      THEN [next |-> "throw", v |-> ResponseNotOkError(response), json |-> 1]
      ELSE [next |-> "await", v |-> Undef, json |-> 1]

\* fetchTyped from the settled transport promise o up to its next suspension:
\* the destructured runSafe result, the two throws, and the call response.json()
StepFetch(o) ==
  LET r == runSafe(o)
      fetchError == Slot(r, 1)
      response == Slot(r, 2)
  IN  IF Truthy(fetchError)
      THEN [next |-> "throw", v |-> FetchThrewError(PropMessage(fetchError)), json |-> 0]
      ELSE IF response.t = "undefined"
      THEN [next |-> "throw", v |-> TypeErrorRead("ok"), json |-> 0]
      ELSE IF ~response.ok
      THEN [next |-> "throw", v |-> ResponseNotOkError(response), json |-> 0]
      ELSE IF response.body.how = "throw"
      THEN [next |-> "throw", v |-> response.body.v, json |-> 1]
      ELSE [next |-> "await", v |-> Undef, json |-> 1]

\* a fetchTyped that returns the decoded body instead of the validator's value
StepJsonReturnsJson(schema, o) ==
  LET r == runSafe(o)
      jsonError == Slot(r, 1)
      json == Slot(r, 2)
      data == safeParse(schema, json)
  IN  IF Truthy(jsonError)
      THEN [next |-> "throw", v |-> JSONParseError(PropMessage(jsonError)), parse |-> 0]
      ELSE IF ~data.success
      THEN [next |-> "throw", v |-> ParseFailedError(data.error), parse |-> 1]
      ELSE [next |-> "return", v |-> json, parse |-> 1]

\* fetchTyped from the settled decode promise o to its end
StepJson(schema, o) ==
  LET r == runSafe(o)
      jsonError == Slot(r, 1)
      json == Slot(r, 2)
      data == safeParse(schema, json)
  IN  IF Truthy(jsonError)
      THEN [next |-> "throw", v |-> JSONParseError(PropMessage(jsonError)), parse |-> 0]
      ELSE IF ~data.success
      THEN [next |-> "throw", v |-> ParseFailedError(data.error), parse |-> 1]
      ELSE [next |-> "return", v |-> data.data, parse |-> 1]

\* ---------------------------------------------------------------- state

VARIABLES
  pc,       \* where each invocation stands
  args,     \* what each invocation was called with
  awaited,  \* the promise the invocation is suspended on
  ftP,      \* the promise returned by fetchTyped
  ret,      \* the promise returned by the entry point
  count     \* calls made so far: input(), fetch(), response.json(), schema.safeParse()

vars == <<pc, args, awaited, ftP, ret, count>>

Calls == DOMAIN pc

NoArgs == [kind |-> "none"]
NoCount == [fn |-> 0, fetch |-> 0, json |-> 0, parse |-> 0]

InitFor(ids) ==
  /\ pc = [c \in ids |-> "idle"]
  /\ args = [c \in ids |-> NoArgs]
  /\ awaited = [c \in ids |-> NoPromise]
  /\ ftP = [c \in ids |-> NoPromise]
  /\ ret = [c \in ids |-> NoPromise]
  /\ count = [c \in ids |-> NoCount]

Init == InitFor({1})

\* a fetchTyped that keeps its outcome in one place shared by all invocations
FinishShared(c, kind, p) ==
  /\ ftP' = [d \in DOMAIN ftP |-> p]
  /\ ret' = IF kind = "fetchTyped" THEN [d \in DOMAIN ret |-> p]
            ELSE [ret EXCEPT ![c] = Pending]
  /\ pc' = [pc EXCEPT ![c] = IF kind = "fetchTyped" THEN "done" ELSE "awaitInner"]

\* the async function fetchTyped ends: its promise settles as p.  Called
\* directly it is the caller's promise; inside safeFetch, runSafe awaits it
\* and the promise safeFetch has returned stays pending.
Finish(c, kind, p) ==
  /\ ftP' = [ftP EXCEPT ![c] = p]
  /\ ret' = [ret EXCEPT ![c] = IF kind = "fetchTyped" THEN p ELSE Pending]
  /\ pc' = [pc EXCEPT ![c] = IF kind = "fetchTyped" THEN "done" ELSE "awaitInner"]

\* ---------------------------------------------------------------- runSafe(input)

\* runSafe up to its await; a throw of input() goes to the catch at once
StartRunSafe(c) ==
  /\ pc[c] = "idle"
  /\ \E input \in RunSafeInputs :
       /\ args' = [args EXCEPT ![c] = [kind |-> "runSafe", input |-> input]]
       /\ count' = [count EXCEPT ![c].fn = InvokeCount(input)]
       /\ IF input.how = "throw"
          THEN /\ ret' = [ret EXCEPT ![c] = Fulfilled(runSafe(Outcome(input)))]
               /\ pc' = [pc EXCEPT ![c] = "done"]
               /\ awaited' = awaited
          ELSE /\ awaited' = [awaited EXCEPT ![c] =
                    IF input.how = "return" \/ input.early THEN Outcome(input) ELSE Pending]
               /\ pc' = [pc EXCEPT ![c] = "awaitInput"]
               /\ ret' = [ret EXCEPT ![c] = Pending]
  /\ UNCHANGED ftP

\* the promise runSafe awaits settles
InputSettles(c) ==
  /\ pc[c] = "awaitInput"
  /\ awaited[c].state = "pending"
  /\ awaited' = [awaited EXCEPT ![c] = Outcome(args[c].input)]
  /\ UNCHANGED <<pc, args, ftP, ret, count>>

\* runSafe resumes after its await and returns
RunSafeResume(c) ==
  /\ pc[c] = "awaitInput"
  /\ Settled(awaited[c])
  /\ ret' = [ret EXCEPT ![c] = Fulfilled(runSafe(awaited[c]))]
  /\ pc' = [pc EXCEPT ![c] = "done"]
  /\ UNCHANGED <<args, awaited, ftP, count>>

\* ---------------------------------------------------------------- fetchTyped, safeFetch

\* the entry point calls fetch(url, options), the argument of runSafe; a throw
\* of that call leaves fetchTyped
StartFetch(c, kind) ==
  /\ pc[c] = "idle"
  /\ \E transport \in Transports, schema \in Schemas :
       /\ args' = [args EXCEPT ![c] = [kind |-> kind, transport |-> transport, schema |-> schema]]
       /\ count' = [count EXCEPT ![c].fetch = 1]
       /\ IF transport.how = "throw"
          THEN /\ Finish(c, kind, Rejected(transport.v))
               /\ awaited' = awaited
          ELSE /\ awaited' = [awaited EXCEPT ![c] = Pending]
               /\ pc' = [pc EXCEPT ![c] = "awaitFetch"]
               /\ ftP' = [ftP EXCEPT ![c] = Pending]
               /\ ret' = [ret EXCEPT ![c] = Pending]

StartFetchTyped(c) == StartFetch(c, "fetchTyped")

StartSafeFetch(c) == StartFetch(c, "safeFetch")

\* the promise returned by fetch settles
TransportSettles(c) ==
  /\ pc[c] = "awaitFetch"
  /\ awaited[c].state = "pending"
  /\ awaited' = [awaited EXCEPT ![c] = Outcome(args[c].transport)]
  /\ UNCHANGED <<pc, args, ftP, ret, count>>

\* fetchTyped resumes with the result of runSafe(fetch(...))
ResumeAfterFetch(c) ==
  /\ pc[c] = "awaitFetch"
  /\ Settled(awaited[c])
  /\ LET s == StepFetch(awaited[c])
     IN  /\ count' = [count EXCEPT ![c].json = s.json]
         /\ IF s.next = "throw"
            THEN /\ Finish(c, args[c].kind, Rejected(s.v))
                 /\ awaited' = awaited
            ELSE /\ awaited' = [awaited EXCEPT ![c] = Pending]
                 /\ pc' = [pc EXCEPT ![c] = "awaitJson"]
                 /\ UNCHANGED <<ftP, ret>>
  /\ UNCHANGED args

\* the promise returned by response.json() settles
DecodeSettles(c) ==
  /\ pc[c] = "awaitJson"
  /\ awaited[c].state = "pending"
  /\ awaited' = [awaited EXCEPT ![c] = Outcome(args[c].transport.v.body)]
  /\ UNCHANGED <<pc, args, ftP, ret, count>>

\* fetchTyped resumes with the result of runSafe(response.json())
ResumeAfterJson(c) ==
  /\ pc[c] = "awaitJson"
  /\ Settled(awaited[c])
  /\ LET s == StepJson(args[c].schema, awaited[c])
     IN  /\ count' = [count EXCEPT ![c].parse = s.parse]
         /\ Finish(c, args[c].kind, IF s.next = "throw" THEN Rejected(s.v) ELSE Fulfilled(s.v))
  /\ UNCHANGED <<args, awaited>>

\* safeFetch: runSafe resumes once the promise of fetchTyped has settled
SafeFetchResume(c) ==
  /\ pc[c] = "awaitInner"
  /\ Settled(ftP[c])
  /\ ret' = [ret EXCEPT ![c] = Fulfilled(runSafe(ftP[c]))]
  /\ pc' = [pc EXCEPT ![c] = "done"]
  /\ UNCHANGED <<args, awaited, ftP, count>>

Next ==
  \/ \E c \in Calls : StartRunSafe(c)
  \/ \E c \in Calls : InputSettles(c)
  \/ \E c \in Calls : RunSafeResume(c)
  \/ \E c \in Calls : StartFetchTyped(c)
  \/ \E c \in Calls : StartSafeFetch(c)
  \/ \E c \in Calls : TransportSettles(c)
  \/ \E c \in Calls : ResumeAfterFetch(c)
  \/ \E c \in Calls : DecodeSettles(c)
  \/ \E c \in Calls : ResumeAfterJson(c)
  \/ \E c \in Calls : SafeFetchResume(c)

Spec == Init /\ [][Next]_vars

\* the work awaited settles (what the caller provides), and the event loop
\* runs every continuation that is ready
Fairness ==
  /\ WF_vars(\E c \in Calls : InputSettles(c))
  /\ WF_vars(\E c \in Calls : TransportSettles(c))
  /\ WF_vars(\E c \in Calls : DecodeSettles(c))
  /\ WF_vars(\E c \in Calls : RunSafeResume(c))
  /\ WF_vars(\E c \in Calls : ResumeAfterFetch(c))
  /\ WF_vars(\E c \in Calls : ResumeAfterJson(c))
  /\ WF_vars(\E c \in Calls : SafeFetchResume(c))

SpecLive == Spec /\ Fairness

\* two invocations in flight at once
InitPair == InitFor({1, 2})

SpecPair == InitPair /\ [][Next]_vars

TypeOK ==
  /\ \A c \in Calls : pc[c] \in {"idle", "awaitInput", "awaitFetch", "awaitJson", "awaitInner", "done"}
  /\ \A c \in Calls : pc[c] = "done" => Settled(ret[c])

\* ---------------------------------------------------------------- claims

IsRunSafe(c) == args[c].kind = "runSafe"
IsFetch(c) == args[c].kind \in {"fetchTyped", "safeFetch"}
Fails(b) == b.how \in {"throw", "reject"}
FetchErrorKinds == {"FetchThrewError", "ResponseNotOkError", "JSONParseError", "ParseFailedError"}
IsFetchErrorKind(v) == InstanceOf(v, "FetchError") /\ v.cls \in FetchErrorKinds

\* C1: a runSafe whose input fails with e (rejected promise, throwing function,
\* function returning a rejecting promise) never rejects, and resolves to the
\* one-slot array holding exactly e.
C1_FailureForm ==
  \A c \in Calls :
    IsRunSafe(c) =>
      /\ ret[c].state # "rejected"
      /\ (pc[c] = "done" /\ Fails(args[c].input)) => ret[c] = Fulfilled(Arr(<<args[c].input.v>>))

C1_Witness ==
  \E c \in Calls :
    /\ IsRunSafe(c) /\ pc[c] = "done"
    /\ args[c].input.how = "reject" /\ ~args[c].input.isPromise
    /\ args[c].input.v = ErrNet
    /\ ret[c].v = Arr(<<ErrNet>>)

\* C2: a runSafe whose input produces v resolves to [undefined, v]; a function
\* input has been called exactly once and a promise input not at all.
C2_SuccessForm ==
  \A c \in Calls :
    IsRunSafe(c) =>
      /\ count[c].fn = (IF args[c].input.isPromise THEN 0 ELSE 1)
      /\ (pc[c] = "done" /\ ~Fails(args[c].input)) => ret[c] = Fulfilled(Arr(<<Undef, args[c].input.v>>))

C2_Witness ==
  \E c \in Calls :
    /\ IsRunSafe(c) /\ pc[c] = "done"
    /\ args[c].input.how = "return"
    /\ count[c].fn = 1
    /\ ret[c].v = Arr(<<Undef, BodyGood>>)

\* C3: whenever fetchTyped rejects, the reason is a FetchThrewError, a
\* ResponseNotOkError, a JSONParseError or a ParseFailedError.
C3_OnlyFetchErrors ==
  \A c \in Calls :
    (IsFetch(c) /\ ftP[c].state = "rejected") => IsFetchErrorKind(ftP[c].v)

\* C4: safeFetch never rejects; it resolves to a one- or two-slot array, and an
\* error in the first slot is a FetchError.
C4_SafeFetchNeverRaises ==
  \A c \in Calls :
    args[c].kind = "safeFetch" =>
      /\ ret[c].state # "rejected"
      /\ pc[c] = "done" =>
           /\ ret[c].state = "fulfilled"
           /\ ret[c].v.t = "array"
           /\ Len(ret[c].v.items) \in {1, 2}
           /\ (Len(ret[c].v.items) = 1 => IsFetchErrorKind(ret[c].v.items[1]))

\* the part of C4 the code keeps: safeFetch never rejects
SafeFetchNeverRejects ==
  \A c \in Calls : args[c].kind = "safeFetch" => ret[c].state # "rejected"

\* C5: on the same transport behaviour and schema, safeFetch yields
\* [undefined, v] exactly when fetchTyped returns v and [e] exactly when
\* fetchTyped raises e (same kind, payload and message).
C5_Equivalent ==
  \A c \in Calls, d \in Calls :
    ( /\ args[c].kind = "fetchTyped" /\ pc[c] = "done"
      /\ args[d].kind = "safeFetch" /\ pc[d] = "done"
      /\ args[c].transport = args[d].transport
      /\ args[c].schema = args[d].schema )
    => /\ ret[d].state = "fulfilled"
       /\ ret[c].state = "fulfilled" <=> (Len(ret[d].v.items) = 2 /\ ret[d].v.items[1] = Undef)
       /\ ret[c].state = "fulfilled" => ret[d].v = Arr(<<Undef, ret[c].v>>)
       /\ ret[c].state = "rejected" => ret[d].v = Arr(<<ret[c].v>>)

C5_Witness ==
  /\ pc = [c \in {1, 2} |-> "done"]
  /\ args[1].kind = "fetchTyped" /\ args[2].kind = "safeFetch"
  /\ args[1].transport = args[2].transport /\ args[1].schema = args[2].schema
  /\ ret[1].state = "rejected" /\ InstanceOf(ret[1].v, "ParseFailedError")
  /\ ret[2].v = Arr(<<ret[1].v>>)

ResolvesOk(c) ==
  /\ IsFetch(c)
  /\ args[c].transport.how = "resolve"
  /\ args[c].transport.v.ok

Decoded(c) == ResolvesOk(c) /\ args[c].transport.v.body.how = "resolve"

\* C6: if the call of the transport raises or rejects with an error of message
\* m, fetchTyped ends with a FetchThrewError of message m; the transport was
\* called once and neither json() nor the validator was called.
C6_TransportFailure ==
  \A c \in Calls :
    (IsFetch(c) /\ Fails(args[c].transport) /\ args[c].transport.v.t = "Error") =>
      /\ count[c].fetch = 1 /\ count[c].json = 0 /\ count[c].parse = 0
      /\ Settled(ftP[c]) => ftP[c] = Rejected(FetchThrewError(Str(args[c].transport.v.message)))

\* C7: if the transport resolves with a response that is not ok, json() and the
\* validator are never called and fetchTyped ends with a ResponseNotOkError
\* carrying that very response.
C7_NotOkShortCircuits ==
  \A c \in Calls :
    (IsFetch(c) /\ args[c].transport.how = "resolve" /\ ~args[c].transport.v.ok) =>
      /\ count[c].json = 0 /\ count[c].parse = 0
      /\ pc[c] # "awaitJson"
      /\ Settled(ftP[c]) =>
           /\ ftP[c].state = "rejected"
           /\ InstanceOf(ftP[c].v, "ResponseNotOkError")
           /\ ftP[c].v.response = args[c].transport.v

C7_Witness ==
  \E c \in Calls :
    /\ IsFetch(c) /\ pc[c] = "done"
    /\ args[c].transport.how = "resolve" /\ args[c].transport.v.status = 404
    /\ args[c].transport.v.body.how = "resolve" /\ args[c].schema = "any"
    /\ ftP[c].state = "rejected" /\ InstanceOf(ftP[c].v, "ResponseNotOkError")
    /\ ftP[c].v.response.ref = "r404"
    /\ count[c].json = 0

\* C8: if the response is ok and decoding its body fails with an error of
\* message m, fetchTyped ends with a JSONParseError of message m and the
\* validator is never called.
C8_DecodeFailure ==
  \A c \in Calls :
    (ResolvesOk(c) /\ Fails(args[c].transport.v.body) /\ args[c].transport.v.body.v.t = "Error") =>
      /\ count[c].parse = 0
      /\ Settled(ftP[c]) =>
           ftP[c] = Rejected(JSONParseError(Str(args[c].transport.v.body.v.message)))

\* C9: after an ok response whose body decoded, the validator alone decides:
\* failure with z gives a ParseFailedError whose zodError is z, success gives
\* the validator's value; and fetchTyped returns a value only when the
\* transport resolved, the response was ok, the decode resolved and the
\* validator accepted.
C9_ValidatorDecides ==
  \A c \in Calls :
    (IsFetch(c) /\ Settled(ftP[c])) =>
      /\ Decoded(c) =>
           LET d == safeParse(args[c].schema, args[c].transport.v.body.v)
           IN  IF d.success
               THEN ftP[c] = Fulfilled(d.data)
               ELSE /\ ftP[c].state = "rejected"
                    /\ InstanceOf(ftP[c].v, "ParseFailedError")
                    /\ ftP[c].v.zodError = d.error
      /\ ftP[c].state = "fulfilled" =>
           /\ Decoded(c)
           /\ Accepts(args[c].schema, args[c].transport.v.body.v)

\* C10 as stated: a body v the schema accepts, behind an ok response, comes
\* back as a success whose value is deep-equal to v.
C10_RoundTripEqual ==
  \A c \in Calls :
    ( /\ Decoded(c) /\ pc[c] = "done"
      /\ Accepts(args[c].schema, args[c].transport.v.body.v) )
    => /\ ftP[c] = Fulfilled(args[c].transport.v.body.v)
       /\ args[c].kind = "safeFetch" => ret[c] = Fulfilled(Arr(<<Undef, args[c].transport.v.body.v>>))

\* C10 amended: a body v the schema accepts, behind an ok response, comes back
\* as a success whose value is the value the validator produced for v, which
\* is deep-equal to v whenever the validator returns its input unchanged.
C10_RoundTripValidated ==
  \A c \in Calls :
    ( /\ Decoded(c) /\ pc[c] = "done"
      /\ Accepts(args[c].schema, args[c].transport.v.body.v) )
    => LET v == args[c].transport.v.body.v
           out == safeParse(args[c].schema, v).data
       IN  /\ ftP[c] = Fulfilled(out)
           /\ args[c].kind = "fetchTyped" => ret[c] = Fulfilled(out)
           /\ args[c].kind = "safeFetch" => ret[c] = Fulfilled(Arr(<<Undef, out>>))
           /\ out = v => ftP[c].v = v

C10_Witness ==
  \E c \in Calls :
    /\ args[c].kind = "safeFetch" /\ pc[c] = "done"
    /\ Decoded(c)
    /\ args[c].transport.v.body.v = BodyExtra
    /\ args[c].schema = "user"
    /\ ret[c].v = Arr(<<Undef, BodyGood>>)

\* whether the invocation ended in a failure of the work it wrapped
Failed(c) ==
  IF IsRunSafe(c) THEN Fails(args[c].input) ELSE ftP[c].state = "rejected"

\* C11: every result of runSafe or safeFetch is either the failure form (one
\* slot, holding the error) or the success form (first slot undefined, second
\* slot the value), so a caller that branches on the presence of the first
\* slot takes the failure branch exactly when the wrapped work failed.
C11_OneSlotPopulated ==
  \A c \in Calls :
    ((IsRunSafe(c) \/ args[c].kind = "safeFetch") /\ pc[c] = "done") =>
      LET r == ret[c].v
      IN  /\ ret[c].state = "fulfilled"
          /\ r.t = "array"
          /\ \/ Len(r.items) = 1 /\ Truthy(r.items[1])
             \/ Len(r.items) = 2 /\ r.items[1] = Undef
          /\ Failed(c) <=> Truthy(Slot(r, 1))

\* the expression e?.item.type: undefined for an undefined e, a TypeError for
\* an e without a field item; no class of index.ts sets a field item
ItemType(e) ==
  IF e.t = "undefined" THEN [how |-> "return", v |-> Undef]
  ELSE IF "item" \in DOMAIN e THEN [how |-> "return", v |-> e.item.type]
  ELSE [how |-> "throw", v |-> TypeErrorRead("type")]

\* e?.item.type evaluates to the text ty
ItemTypeIs(e, ty) == ItemType(e) = [how |-> "return", v |-> Str(<<ty>>)]

\* C12: fetchTyped never rejects and resolves to a two-slot result:
\* [undefined, value] on success, otherwise a FetchError in the first slot whose
\* item.type is "fetch-threw" when the transport rejects, "response-not-ok"
\* (with the response) when the response is not ok, and "parse-failed" when the
\* body does not match the schema.
C12_FetchTypedReturnsResult ==
  \A c \in Calls :
    args[c].kind = "fetchTyped" =>
      /\ ret[c].state # "rejected"
      /\ pc[c] = "done" =>
           LET r == ret[c].v
               tr == args[c].transport
           IN  /\ r.t = "array"
               /\ Slot(r, 1) = Undef \/ InstanceOf(Slot(r, 1), "FetchError")
               /\ tr.how = "reject" => ItemTypeIs(Slot(r, 1), "fetch-threw")
               /\ (tr.how = "resolve" /\ ~tr.v.ok) =>
                    /\ ItemTypeIs(Slot(r, 1), "response-not-ok")
                    /\ Slot(r, 1).item.response = tr.v
               /\ (Decoded(c) /\ ~Accepts(args[c].schema, tr.v.body.v)) =>
                    ItemTypeIs(Slot(r, 1), "parse-failed")

\* fetchTyped run to its end without any other invocation: the outcome of its
\* promise for a transport behaviour and a schema
fetchTypedAlone(a) ==
  IF a.transport.how = "throw" THEN Rejected(a.transport.v)
  ELSE LET s == StepFetch(Outcome(a.transport))
       IN  IF s.next = "throw" THEN Rejected(s.v)
           ELSE LET j == StepJson(a.schema, Outcome(a.transport.v.body))
                IN  IF j.next = "throw" THEN Rejected(j.v) ELSE Fulfilled(j.v)

\* the promise an entry point returns when its invocation runs alone
Alone(a) ==
  CASE a.kind = "runSafe" -> Fulfilled(runSafe(Outcome(a.input)))
    [] a.kind = "fetchTyped" -> fetchTypedAlone(a)
    [] a.kind = "safeFetch" -> Fulfilled(runSafe(fetchTypedAlone(a)))

\* everything the model keeps for invocation c
State(c) == <<pc[c], args[c], awaited[c], ftP[c], ret[c], count[c]>>

OutcomeAsAlone ==
  \A c \in Calls :
    /\ (IsFetch(c) /\ Settled(ftP[c])) => ftP[c] = fetchTypedAlone(args[c])
    /\ pc[c] = "done" => ret[c] = Alone(args[c])

OneInvocationMoves ==
  \E d \in {1, 2} : \A c \in {1, 2} \ {d} : State(c)' = State(c)

\* an invocation running with no other one ends as Alone says
AloneIsAlone == \A c \in Calls : pc[c] = "done" => ret[c] = Alone(args[c])

\* C13: with two invocations in flight and their suspension points interleaved
\* in any order, each invocation ends with the outcome it has when run alone on
\* its own input, and a step of one invocation changes nothing of the other.
C13_Independent == []OutcomeAsAlone /\ [][OneInvocationMoves]_vars

C13_Witness ==
  /\ pc[1] = "awaitJson" /\ awaited[1].state = "pending"
  /\ args[1].kind = "fetchTyped"
  /\ pc[2] = "done" /\ args[2].kind = "safeFetch"
  /\ args[2].transport.how = "resolve" /\ args[2].transport.v.status = 404
  /\ count[2].json = 0
  /\ ret[2] = Alone(args[2])

\* the stages in their order: Invoking, Decoding (StatusChecking and Validating
\* are the synchronous code that follows each suspension), Done
Rank(p) ==
  CASE p = "idle" -> 0
    [] p = "awaitFetch" -> 1
    [] p = "awaitJson" -> 2
    [] p = "awaitInner" -> 3
    [] OTHER -> 4

\* the error class of the first stage that failed, "none" when all four succeeded
FirstFailure(a) ==
  IF Fails(a.transport) THEN "FetchThrewError"
  ELSE IF ~a.transport.v.ok THEN "ResponseNotOkError"
  ELSE IF Fails(a.transport.v.body) THEN "JSONParseError"
  ELSE IF ~Accepts(a.schema, a.transport.v.body.v) THEN "ParseFailedError"
  ELSE "none"

\* order and multiplicity of the collaborator calls
CallsInOrder(c) ==
  /\ count[c].fetch = 1
  /\ count[c].json <= 1
  /\ count[c].json = 1 => ResolvesOk(c)
  /\ count[c].parse <= 1

ValidatedAfterDecode(c) == count[c].parse = 1 => Decoded(c)

FirstFailureReported(c) ==
  Settled(ftP[c]) =>
    IF FirstFailure(args[c]) = "none"
    THEN ftP[c].state = "fulfilled"
    ELSE ftP[c].state = "rejected" /\ InstanceOf(ftP[c].v, FirstFailure(args[c]))

\* the part of C14 the code keeps: stages only advance, the transport is
\* called once, json() at most once and only for an ok response, and a
\* settled outcome never changes
StagesAdvance ==
  [][\A c \in {1} :
       /\ Rank(pc'[c]) >= Rank(pc[c])
       /\ IsFetch(c)' => CallsInOrder(c)'
       /\ Settled(ftP[c]) => ftP'[c] = ftP[c]
       /\ Settled(ret[c]) => ret'[c] = ret[c]]_vars

\* C14: an invocation of the pipeline only moves forward through its stages;
\* the transport is called exactly once, json() at most once and only after an
\* ok status, the validator at most once and only after a successful decode;
\* the invocation ends in one outcome that never changes, a failure being that
\* of the first stage that failed.
C14_LinearPipeline ==
  [][\A c \in {1} :
       /\ Rank(pc'[c]) >= Rank(pc[c])
       /\ IsFetch(c)' =>
            /\ CallsInOrder(c)'
            /\ ValidatedAfterDecode(c)'
            /\ FirstFailureReported(c)'
       /\ Settled(ftP[c]) => ftP'[c] = ftP[c]
       /\ Settled(ret[c]) => ret'[c] = ret[c]]_vars

\* a continuation of invocation c is ready to run
CanResume(c) ==
  \/ ENABLED RunSafeResume(c)
  \/ ENABLED ResumeAfterFetch(c)
  \/ ENABLED ResumeAfterJson(c)
  \/ ENABLED SafeFetchResume(c)

\* an invocation that has started and not ended is suspended on the work it
\* was given (input, transport, decode) or is ready to resume
NoOwnWait ==
  \A c \in Calls :
    pc[c] \notin {"idle", "done"} =>
      \/ pc[c] \in {"awaitInput", "awaitFetch", "awaitJson"} /\ awaited[c].state = "pending"
      \/ CanResume(c)

\* C15: provided the awaited work (input, transport, decode) settles, every
\* invocation of runSafe, fetchTyped and safeFetch that has started reaches its
\* end, and it never waits on anything but that work.
C15_Terminates == []NoOwnWait /\ ((pc[1] # "idle") ~> (pc[1] = "done" /\ Settled(ret[1])))

C15_Witness ==
  /\ pc[1] = "done" /\ args[1].kind = "safeFetch"
  /\ count[1].fetch = 1 /\ count[1].json = 1 /\ count[1].parse = 1
  /\ Settled(ret[1])

====
